---- MODULE Spec2Model ----
(***************************************************************************)
(* CubeLineMoment.py: main() reads a parameter file, cubelinemoment_setup  *)
(* loads the cubes and derives the reference maps and masks, and           *)
(* cubelinemoment_multiline loops over the configured spectral lines,      *)
(* masks each line's velocity slab and writes moments 0, 1, 2 as FITS and  *)
(* PNG files.                                                              *)
(*                                                                         *)
(* Numbers.  The cubes hold small non-negative integer brightnesses.       *)
(* Velocities are kept on an integer km/s grid.  Every quantity that the   *)
(* code obtains by a division or a square root is kept exactly, as a       *)
(* rational <<numerator, denominator>> (denominator 0: infinite when the   *)
(* numerator is not 0, NaN when it is), and maps that hold a square root   *)
(* (noise maps, width_map, the FWHM written as moment 2) keep the square.  *)
(* Comparisons are then made on the squares, sign taken into account.      *)
(***************************************************************************)
EXTENDS Integers, Sequences, FiniteSets, TLC

VARIABLES
    pc,               \* position of the run of main()
    error,            \* the exception that ended the run, "none" while running
    params,           \* the parameter dictionary of main()
    files_in,         \* the two cube files on disk
    cube, spatialmaskcube, spatial_mask, noisemap, noisemapbright,
    centroid_map, width_map, max_map, peak_velocity,   \* products of setup
    i,                \* index of the line being processed (position of zip)
    line_name, line_freq, line_width,                   \* loop variables
    subcube,          \* channels of the line's velocity slab
    velocities,       \* the slab's spectral axis: channel -> velocity
    width_mask_cube,  \* voxels <<channel, pixel>> the Gaussian width mask admits
    msubcube,         \* voxels <<channel, pixel>> of the slab left unmasked
    moment, mom,      \* moment order being written and its map
    written,          \* every file write so far, in order
    disk              \* output files: path -> content

products == <<cube, spatialmaskcube, spatial_mask, noisemap, noisemapbright,
              centroid_map, width_map, max_map, peak_velocity>>
locals == <<line_name, line_freq, line_width, subcube, velocities,
            width_mask_cube, msubcube, moment, mom>>
vars == <<pc, error, params, files_in, products, i, locals, written, disk>>

(***************************************************************************)
(* Bounds of the model.                                                    *)
(***************************************************************************)
NChan == 5        \* spectral channels of a cube
NPix == 3         \* spatial pixels of an uncropped cube
MaxLines == 2     \* longest line list of a parameter file

Chans == 1..NChan
Pixels == 1..NPix
None == "None"
Unset == << >>

(***************************************************************************)
(* Small arithmetic helpers.                                               *)
(***************************************************************************)
Abs(x) == IF x < 0 THEN -x ELSE x

RECURSIVE SumOver(_, _)
SumOver(S, f) ==
    IF S = {} THEN 0
    ELSE LET x == CHOOSE y \in S : TRUE IN f[x] + SumOver(S \ {x}, f)

SetMin(S) == CHOOSE x \in S : \A y \in S : x <= y
SetMax(S) == CHOOSE x \in S : \A y \in S : x >= y

IsNaN(r) == r[1] = 0 /\ r[2] = 0
IsInf(r) == r[1] # 0 /\ r[2] = 0
\* r < s for finite rationals with positive denominators
RatLess(r, s) == r[1] * s[2] < s[1] * r[2]

(***************************************************************************)
(* The cube library (spectral_cube, numpy) as the code uses it.            *)
(***************************************************************************)
FreqBase == 100          \* frequency of channel 0, in channel widths
SpeedOfLight == 300      \* c, in the model's velocity unit

\* SpectralCube.read(f).with_spectral_unit(u.Hz): the frequency of channel c
Freq(c) == FreqBase + c

\* with_spectral_unit(u.km/u.s, rest_value, velocity_convention='optical'):
\* v = c (f0 - f) / f, on the integer velocity grid
Velocity(rest, c) == (SpeedOfLight * (rest - Freq(c))) \div Freq(c)

PixelsOf(cb) == DOMAIN cb[1]

\* pyregion.open(region) + subcube_from_ds9region: the box keeps all pixels
\* but the last
RegionPixels(region) == 1..(NPix - 1)
Crop(cb, region) == [c \in Chans |-> [p \in RegionPixels(region) |-> cb[c][p]]]

\* closest_spectral_channel: np.argmin of |axis - v|, the first on a tie
ClosestChannel(rest, v) ==
    CHOOSE c \in Chans : \A d \in Chans :
        \/ Abs(Velocity(rest, c) - v) < Abs(Velocity(rest, d) - v)
        \/ Abs(Velocity(rest, c) - v) = Abs(Velocity(rest, d) - v) /\ c <= d

\* spectral_slab(lo, hi): the channels from the one closest to lo to the one
\* closest to hi, both included
SpectralSlab(rest, lo, hi) ==
    LET a == ClosestChannel(rest, lo)
        b == ClosestChannel(rest, hi)
    IN  (IF a < b THEN a ELSE b)..(IF a < b THEN b ELSE a)

\* the unmasked channels of pixel p in a voxel set
ChansAt(vox, p) == {c \in Chans : <<c, p>> \in vox}
FullMask(cb, S) == S \X PixelsOf(cb)

\* sums of I, I v and I v^2 along the spectral axis
S0(cb, vox, p) == SumOver(ChansAt(vox, p), [c \in Chans |-> cb[c][p]])
S1(cb, rest, vox, p) ==
    SumOver(ChansAt(vox, p), [c \in Chans |-> cb[c][p] * Velocity(rest, c)])
S2(cb, rest, vox, p) ==
    SumOver(ChansAt(vox, p),
            [c \in Chans |-> cb[c][p] * Velocity(rest, c) * Velocity(rest, c)])

\* moment(order=0): integrated intensity, in units of the channel width
Moment0(cb, vox, p) == <<S0(cb, vox, p), 1>>
\* moment(order=1): intensity-weighted velocity, NaN on an empty spectrum
Moment1(cb, rest, vox, p) == <<S1(cb, rest, vox, p), S0(cb, vox, p)>>
\* moment(order=2): intensity-weighted variance about moment 1
Moment2(cb, rest, vox, p) ==
    <<S2(cb, rest, vox, p) * S0(cb, vox, p)
        - S1(cb, rest, vox, p) * S1(cb, rest, vox, p),
      S0(cb, vox, p) * S0(cb, vox, p)>>

\* mask[low:high] = True for every pair: Python slices, 0-based, half-open
BaselineChans(baseline) ==
    {c \in Chans : \E k \in 1..Len(baseline) :
        baseline[k][1] <= c - 1 /\ c - 1 < baseline[k][2]}

\* with_mask(mask).std(axis=0), squared: the population variance of the
\* selected channels, NaN when none is selected
Variance(cb, sel, p) ==
    LET n == Cardinality(sel)
        sx == SumOver(sel, [c \in Chans |-> cb[c][p]])
        sxx == SumOver(sel, [c \in Chans |-> cb[c][p] * cb[c][p]])
    IN  <<n * sxx - sx * sx, n * n>>

\* x > limit * sqrt(var), for limit >= 0; a comparison with NaN is false
ExceedsSigma(x, limit, var) ==
    /\ ~IsNaN(var)
    /\ x > 0
    /\ x * x * var[2] > limit * limit * var[1]

\* cube.max(axis=0) and argmax(axis=0) (the first maximum) over channels S
MaxOver(cb, S, p) == SetMax({cb[c][p] : c \in S})
ArgMaxOver(cb, S, p) == SetMin({c \in S : cb[c][p] = MaxOver(cb, S, p)})

(***************************************************************************)
(* The Gaussian width mask of cubelinemoment_multiline.  np.exp works in   *)
(* IEEE double precision: exp(-q) is 0.0 once q exceeds 1075 ln 2, about   *)
(* 745.1 (the smallest subnormal is 2^-1074), and exp(-inf) is 0.0.  A     *)
(* value exp(-q) is represented by its exponent q.                         *)
(***************************************************************************)
ExpUnderflowTenths == 7451

RECURSIVE GCD(_, _)
GCD(a, b) == IF b = 0 THEN a ELSE GCD(b, a % b)
Reduce(r) ==
    LET g == GCD(Abs(r[1]), Abs(r[2]))
    IN  IF g = 0 THEN r ELSE <<r[1] \div g, r[2] \div g>>

\* (centroid - v)^2 / (2 width^2), with width^2 = w2
GaussExponent(cen, v, w2) ==
    IF IsNaN(cen) \/ IsNaN(w2) THEN <<0, 0>>
    ELSE LET d == cen[1] - v * cen[2]
         IN  Reduce(<<d * d * w2[2], 2 * w2[1] * cen[2] * cen[2]>>)

\* peak_sn = max_map / noisemap, squared; nvar is the square of noisemap
PeakSN2(mx, nvar) == Reduce(<<mx * mx * nvar[2], nvar[1]>>)

\* peak_sn^2 / 2
ThresholdExponent(sn2) == <<sn2[1], 2 * sn2[2]>>

ExpIsZero(q) == IsInf(q) \/ 10 * q[1] > ExpUnderflowTenths * q[2]

\* np.exp(-qg) > np.exp(-qt)
ExpGreater(qg, qt) ==
    IF IsNaN(qg) \/ IsNaN(qt) THEN FALSE
    ELSE IF ExpIsZero(qg) THEN FALSE
    ELSE IF ExpIsZero(qt) THEN TRUE
    ELSE RatLess(qg, qt)

\* width_mask_cube = gauss_mask_cube > threshold, at velocity v of one pixel
WidthMaskAt(cen, v, w2, mx, nvar) ==
    ExpGreater(GaussExponent(cen, v, w2), ThresholdExponent(PeakSN2(mx, nvar)))

(***************************************************************************)
(* Inputs: the cube files and the parameter file read by main().           *)
(***************************************************************************)
\* a line of amplitude a peaking at channel k over an alternating baseline
Spectrum(k, a, c, p) ==
    IF c = k THEN a
    ELSE IF Abs(c - k) = 1 THEN a \div 2
    ELSE (c + p) % 2

\* the main cube: every pixel has a line, at a channel that drifts with p
MainCubeData(s) ==
    [c \in Chans |-> [p \in Pixels |->
        Spectrum(2 + ((s + p) % 3), 3 + p, c, p)]]

\* the 'bright' cube: a brighter line at one channel, faint in the second pixel
BrightCubeData(s) ==
    [c \in Chans |-> [p \in Pixels |->
        Spectrum(2 + (s % 3), IF p = 2 THEN 2 ELSE 2 * (2 + p), c, p)]]

FileSet ==
    {[cube |-> MainCubeData(s), spatialmaskcube |-> BrightCubeData(s)] :
        s \in {0, 1, 2}}

\* the line catalogue of a parameter file: <<name, rest frequency, width>>
Catalog == {<<"H2CO", 102, 10>>, <<"C18O", 104, 5>>}

LineSeqs == UNION {[1..n -> Catalog] : n \in 1..MaxLines}

DropLast(q) == SubSeq(q, 1, Len(q) - 1)

\* the three lists of main(), as split from the parameter file; `short`
\* names the list, if any, that the file gives one entry fewer
LineLists(ls, short) ==
    LET names == [k \in 1..Len(ls) |-> ls[k][1]]
        freqs == [k \in 1..Len(ls) |-> ls[k][2]]
        widths == [k \in 1..Len(ls) |-> ls[k][3]]
    IN  [my_line_names |-> IF short = "names" THEN DropLast(names) ELSE names,
         my_line_list |-> IF short = "list" THEN DropLast(freqs) ELSE freqs,
         my_line_widths |-> IF short = "widths" THEN DropLast(widths) ELSE widths]

\* split(", ") never yields an empty list: only a file of two or more
\* lines can have a list that is one entry short
LineListSet ==
    {LineLists(x[1], x[2]) :
        x \in {y \in LineSeqs \X {"none", "names", "list", "widths"} :
                  y[2] = "none" \/ Len(y[1]) > 1}}

Baselines == {<< <<0, 2>> >>, << <<0, 1>>, <<3, 5>> >>}

ParamSet ==
    {[cuberegion |-> cr, spatialmaskcuberegion |-> mr,
      vz |-> 0, brightest_line_frequency |-> 103,
      width_line_frequency |-> 103, linewidth_guess |-> 4,
      noisemapbright_baseline |-> bb, noisemap_baseline |-> nb,
      spatial_mask_limit |-> 3, signal_mask_limit |-> 1,
      target |-> "NGC253",
      my_line_names |-> ll.my_line_names,
      my_line_list |-> ll.my_line_list,
      my_line_widths |-> ll.my_line_widths] :
        cr \in {None, "box"}, mr \in {None, "box"},
        bb \in Baselines, nb \in Baselines,
        ll \in LineListSet}

(***************************************************************************)
(* cubelinemoment_setup                                                    *)
(***************************************************************************)
\* lines 86-91: the main cube, cropped when a region is given
SetupCube(P, F) ==
    IF P.cuberegion # None THEN Crop(F.cube, P.cuberegion) ELSE F.cube

\* line 99: the spatial mask cube, always cropped by its region
SetupMaskCube(P, F) == Crop(F.spatialmaskcube, P.spatialmaskcuberegion)

\* lines 125-129
SetupWidthMap(P, cb) ==
    [p \in PixelsOf(cb) |->
        Moment2(cb, P.width_line_frequency, FullMask(cb, Chans), p)]
SetupCentroidMap(P, cb) ==
    [p \in PixelsOf(cb) |->
        Reduce(Moment1(cb, P.width_line_frequency, FullMask(cb, Chans), p))]
SetupMaxMap(cb) == [p \in PixelsOf(cb) |-> MaxOver(cb, Chans, p)]

\* lines 134-150: the slab of the brightest line around vz, its peak
\* velocity and peak amplitude
BrightestSlab(P) ==
    SpectralSlab(P.brightest_line_frequency,
                 P.vz - P.linewidth_guess, P.vz + P.linewidth_guess)
SetupPeakVelocity(P, mcb) ==
    [p \in PixelsOf(mcb) |->
        Velocity(P.brightest_line_frequency,
                 ArgMaxOver(mcb, BrightestSlab(P), p))]
PeakAmplitude(P, mcb) ==
    [p \in PixelsOf(mcb) |-> MaxOver(mcb, BrightestSlab(P), p)]

\* lines 158-162: the noise of the 'bright' baseline, taken from `cube`
SetupNoiseMapBright(P, cb, mcb) ==
    [p \in PixelsOf(cb) |->
        Variance(cb, BaselineChans(P.noisemapbright_baseline), p)]

\* line 173
SetupSpatialMask(P, peak_amplitude, nmb) ==
    [p \in DOMAIN peak_amplitude |->
        ExceedsSigma(peak_amplitude[p], P.spatial_mask_limit, nmb[p])]

\* lines 184-188
SetupNoiseMap(P, cb) ==
    [p \in PixelsOf(cb) |->
        Variance(cb, BaselineChans(P.noisemap_baseline), p)]

\* an exception that is recorded while the step is attempted again
AbortAndRetry(err) ==
    /\ pc' = pc
    /\ error' = err

\* where a raised exception leaves the run
Abort(err) ==
    /\ pc' = "failed"
    /\ error' = err

Setup ==
    /\ pc = "setup"
    /\ LET cb == SetupCube(params, files_in)
       IN  IF params.spatialmaskcuberegion = None
           THEN \* pyregion.open(None) raises
                /\ Abort("TypeError")
                /\ UNCHANGED products
           ELSE LET mcb == SetupMaskCube(params, files_in)
                    nmb == SetupNoiseMapBright(params, cb, mcb)
                IN  IF PixelsOf(cb) # PixelsOf(mcb)
                    THEN \* line 173 compares maps of different shapes
                         /\ Abort("BroadcastError")
                         /\ UNCHANGED products
                    ELSE /\ cube' = cb
                         /\ spatialmaskcube' = mcb
                         /\ width_map' = SetupWidthMap(params, cb)
                         /\ centroid_map' = SetupCentroidMap(params, cb)
                         /\ max_map' = SetupMaxMap(cb)
                         /\ peak_velocity' = SetupPeakVelocity(params, mcb)
                         /\ noisemapbright' = nmb
                         /\ spatial_mask' =
                              SetupSpatialMask(params, PeakAmplitude(params, mcb), nmb)
                         /\ noisemap' = SetupNoiseMap(params, cb)
                         /\ pc' = "multiline"
                         /\ UNCHANGED error
    /\ UNCHANGED <<params, files_in, i, locals, written, disk>>

(***************************************************************************)
(* cubelinemoment_multiline                                                *)
(***************************************************************************)
Ln2Milli == 693          \* np.log(2), in thousandths

\* the parameter check with `and` for `or`: raises only when both differ
LengthMismatchAnd(names, list, widths) ==
    Len(names) # Len(list) /\ Len(names) # Len(widths)

\* line 228: the parameter check
LengthMismatch(names, list, widths) ==
    Len(names) # Len(list) \/ Len(names) # Len(widths)

\* line 237: zip stops at the shortest list
ZipLen(names, list, widths) ==
    SetMin({Len(names), Len(list), Len(widths)})

\* the loop rebinding cube to the slab it cut: channels outside are lost
CubeRebound(cb, slab) ==
    [c \in DOMAIN cb |->
        [p \in DOMAIN cb[c] |-> IF c \in slab THEN cb[c][p] ELSE 0]]

\* lines 241-245: vcube and subcube are new objects; cube is not rebound
CubeAfterLine(cb, slab) == cb

\* lines 244-245: the slab around the range of peak velocities
LineSlab(pv, rest, lw) ==
    LET vs == {pv[p] : p \in DOMAIN pv}
    IN  SpectralSlab(rest, SetMin(vs) - lw, SetMax(vs) + lw)

\* the velocity mask with <= for <
VelocityMaskInclusive(pv, v, lw) == Abs(pv - v) <= lw

\* line 285: mask = np.abs(peak_velocity - velocities) < line_width
VelocityMask(pv, v, lw) == Abs(pv - v) < lw

\* line 288: signal_mask = subcube > signal_mask_limit*noisemap
SignalMask(x, limit, nvar) == ExceedsSigma(x, limit, nvar)

\* line 294: with_mask(mask & spatial_mask).with_mask(signal_mask)
\*           .with_mask(width_mask_cube)
Admits(velocity_mask, spatial, signal, width) ==
    velocity_mask /\ spatial /\ signal /\ width

\* the setup products as cubelinemoment_multiline receives them
Products ==
    [cube |-> cube, peak_velocity |-> peak_velocity,
     centroid_map |-> centroid_map, width_map |-> width_map,
     max_map |-> max_map, noisemap |-> noisemap, spatial_mask |-> spatial_mask]

\* lines 279-280: the spectral axis of the slab
SpectralAxis(rest, slab) == [c \in slab |-> Velocity(rest, c)]

\* lines 255-271: width_mask_cube = gauss_mask_cube > threshold
WidthMaskCube(S, vel) ==
    {x \in (DOMAIN vel) \X PixelsOf(S.cube) :
        WidthMaskAt(S.centroid_map[x[2]], vel[x[1]], S.width_map[x[2]],
                    S.max_map[x[2]], S.noisemap[x[2]])}

\* lines 285-294: the voxels of the slab that msubcube leaves unmasked
MaskedSubcube(S, limit, lw, vel, wmask) ==
    {x \in (DOMAIN vel) \X PixelsOf(S.cube) :
        Admits(VelocityMask(S.peak_velocity[x[2]], vel[x[1]], lw),
               S.spatial_mask[x[2]],
               SignalMask(S.cube[x[1]][x[2]], limit, S.noisemap[x[2]]),
               x \in wmask)}

\* line 308: mom = 2 sqrt(ln 2) sqrt(mom), squared
LineWidthFromMoment2(m2) == <<2 * 2 * Ln2Milli * m2[1], 1000 * m2[2]>>

\* lines 306-308
MomentMap(cb, rest, vox, order) ==
    [p \in PixelsOf(cb) |->
        CASE order = 0 -> Moment0(cb, vox, p)
          [] order = 1 -> Reduce(Moment1(cb, rest, vox, p))
          [] order = 2 -> LineWidthFromMoment2(Reduce(Moment2(cb, rest, vox, p)))]

\* the output path with target and line name exchanged
OutPathSwapped(order, target, name, ext) ==
    <<"moment", order, "/", name, "_", target, "_moment", order, ext>>

\* "moment{0}/{1}_{2}_moment{0}.ext".format(moment, target, line_name)
OutPath(order, target, name, ext) ==
    <<"moment", order, "/", target, "_", name, "_moment", order, ext>>

WriteFile(kind, path, data) ==
    /\ written' = Append(written, [kind |-> kind, path |-> path, data |-> data])
    /\ disk' = [q \in DOMAIN disk \cup {path} |->
                   IF q = path THEN data ELSE disk[q]]

CheckLengths ==
    /\ pc = "multiline"
    /\ IF LengthMismatch(params.my_line_names, params.my_line_list,
                         params.my_line_widths)
       THEN /\ Abort("ValueError")
            /\ UNCHANGED i
       ELSE /\ pc' = "loop"
            /\ i' = 1
            /\ UNCHANGED error
    /\ UNCHANGED <<params, files_in, products, locals, written, disk>>

NLines ==
    ZipLen(params.my_line_names, params.my_line_list, params.my_line_widths)

\* lines 237-294: bind the next line and build its masked subcube
LineMasks ==
    /\ pc = "loop"
    /\ i <= NLines
    /\ line_name' = params.my_line_names[i]
    /\ line_freq' = params.my_line_list[i]
    /\ line_width' = params.my_line_widths[i]
    /\ subcube' = LineSlab(peak_velocity, line_freq', line_width')
    /\ velocities' = SpectralAxis(line_freq', subcube')
    /\ width_mask_cube' = WidthMaskCube(Products, velocities')
    /\ msubcube' = MaskedSubcube(Products, params.signal_mask_limit,
                                 line_width', velocities', width_mask_cube')
    /\ cube' = CubeAfterLine(cube, subcube')
    /\ moment' = 0
    /\ pc' = "moment"
    /\ UNCHANGED <<error, params, files_in, spatialmaskcube, spatial_mask,
                   noisemap, noisemapbright, centroid_map, width_map, max_map,
                   peak_velocity, i, mom, written, disk>>

\* line 237: the lists are exhausted and main() returns
LoopEnd ==
    /\ pc = "loop"
    /\ i > NLines
    /\ pc' = "done"
    /\ UNCHANGED <<error, params, files_in, products, i, locals, written, disk>>

\* lines 306-308
ComputeMoment ==
    /\ pc = "moment"
    /\ mom' = MomentMap(cube, line_freq, msubcube, moment)
    /\ pc' = "writefits"
    /\ UNCHANGED <<error, params, files_in, products, i, line_name, line_freq,
                   line_width, subcube, velocities, width_mask_cube, msubcube,
                   moment, written, disk>>

\* lines 309-312
WriteFits ==
    /\ pc = "writefits"
    /\ WriteFile("fits", OutPath(moment, params.target, line_name, ".fits"), mom)
    /\ pc' = "writepng"
    /\ UNCHANGED <<error, params, files_in, products, i, locals>>

\* lines 313-317, and the step of the two loops
WritePng ==
    /\ pc = "writepng"
    /\ WriteFile("png", OutPath(moment, params.target, line_name, ".png"), mom)
    /\ IF moment < 2
       THEN /\ moment' = moment + 1
            /\ pc' = "moment"
            /\ UNCHANGED i
       ELSE /\ i' = i + 1
            /\ pc' = "loop"
            /\ UNCHANGED moment
    /\ UNCHANGED <<error, params, files_in, products, line_name, line_freq,
                   line_width, subcube, velocities, width_mask_cube, msubcube,
                   mom>>

\* any library call may raise (file not found, unit mismatch, malformed
\* region, unwritable directory); nothing catches it
LibraryFailure ==
    /\ \/ pc \in {"setup", "moment", "writefits", "writepng"}
       \/ pc = "loop" /\ i <= NLines
    /\ Abort("LibraryError")
    /\ UNCHANGED <<params, files_in, products, i, locals, written, disk>>

Init ==
    /\ pc = "setup"
    /\ error = "none"
    /\ params \in ParamSet
    /\ files_in \in FileSet
    /\ cube = Unset /\ spatialmaskcube = Unset /\ spatial_mask = Unset
    /\ noisemap = Unset /\ noisemapbright = Unset /\ centroid_map = Unset
    /\ width_map = Unset /\ max_map = Unset /\ peak_velocity = Unset
    /\ i = 0
    /\ line_name = "" /\ line_freq = 0 /\ line_width = 0
    /\ subcube = {} /\ velocities = Unset
    /\ width_mask_cube = {} /\ msubcube = {}
    /\ moment = 0 /\ mom = Unset
    /\ written = << >>
    /\ disk = << >>

Next ==
    \/ Setup
    \/ CheckLengths
    \/ LineMasks
    \/ LoopEnd
    \/ ComputeMoment
    \/ WriteFits
    \/ WritePng
    \/ LibraryFailure

Spec == Init /\ [][Next]_vars

(***************************************************************************)
(* The width mask on its own: one pixel, one channel, inputs drawn from    *)
(* bounded sets, the mask applied as lines 255-271 apply it.               *)
(***************************************************************************)
MaxPeak == 41         \* largest max_map value drawn
MaxVel == 42          \* largest |velocity| drawn
MaxSigma == 2         \* largest line width and noise level drawn

InitWidthMask ==
    /\ pc = "widthmask"
    /\ error = "none"
    /\ params = CHOOSE p \in ParamSet : TRUE     \* not read by the mask
    /\ files_in = CHOOSE f \in FileSet : TRUE
    /\ \E mx \in 0..MaxPeak, v \in (0 - MaxVel)..MaxVel,
          w \in 1..MaxSigma, n \in 1..MaxSigma, c \in {0, 1} :
            /\ cube = << <<mx>> >>
            /\ max_map = <<mx>>
            /\ centroid_map = << <<c, 1>> >>
            /\ width_map = << <<w * w, 1>> >>
            /\ noisemap = << <<n * n, 1>> >>
            /\ velocities = <<v>>
    /\ spatialmaskcube = Unset /\ spatial_mask = Unset
    /\ noisemapbright = Unset /\ peak_velocity = Unset
    /\ i = 0
    /\ line_name = "" /\ line_freq = 0 /\ line_width = 0
    /\ subcube = {1}
    /\ width_mask_cube = {} /\ msubcube = {}
    /\ moment = 0 /\ mom = Unset
    /\ written = << >>
    /\ disk = << >>

ApplyWidthMask ==
    /\ pc = "widthmask"
    /\ width_mask_cube' = WidthMaskCube(Products, velocities)
    /\ pc' = "masked"
    /\ UNCHANGED <<error, params, files_in, products, i, line_name, line_freq,
                   line_width, subcube, velocities, msubcube, moment, mom,
                   written, disk>>

NextWidthMask == ApplyWidthMask

SpecWidthMask == InitWidthMask /\ [][NextWidthMask]_vars

(***************************************************************************)
(* Properties                                                              *)
(***************************************************************************)
Names == params.my_line_names
List == params.my_line_list
Widths == params.my_line_widths
LengthsAgree == Len(Names) = Len(List) /\ Len(List) = Len(Widths)
InLoop == pc \in {"loop", "moment", "writefits", "writepng"}
SetupDone == cube # Unset

\* C1: cubelinemoment_multiline raises ValueError exactly when the three
\* line lists do not all have the same length, and it raises before any
\* line is processed: no file has been written when it does.
C1_LengthCheck ==
    /\ error = "ValueError" =>
         /\ ~LengthsAgree
         /\ pc = "failed"
         /\ written = << >>
         /\ disk = << >>
    /\ (i >= 1 \/ InLoop \/ pc = "done") => LengthsAgree
    /\ (SetupDone /\ pc # "multiline" /\ ~LengthsAgree) => error = "ValueError"

C1_Witness ==
    /\ error = "ValueError"
    /\ pc = "failed"
    /\ SetupDone
    /\ Len(Names) # Len(Widths)

\* the write the run makes at position k of a complete run: line
\* (k-1) div 6 + 1, moment ((k-1) mod 6) div 2, FITS before PNG
ExpectedWrite(S, k) ==
    LET n == ((k - 1) \div 6) + 1
        m == ((k - 1) % 6) \div 2
        fits == (k - 1) % 2 = 0
        vel == SpectralAxis(List[n], LineSlab(S.peak_velocity, List[n], Widths[n]))
    IN  [kind |-> IF fits THEN "fits" ELSE "png",
         path |-> <<"moment", m, "/", params.target, "_", Names[n], "_moment", m,
                    IF fits THEN ".fits" ELSE ".png">>,
         data |-> MomentMap(S.cube, List[n],
                            MaskedSubcube(S, params.signal_mask_limit, Widths[n],
                                          vel, WidthMaskCube(S, vel)),
                            m)]

\* the number of writes made when the run stands at (i, moment, pc)
WritesSoFar ==
    6 * (i - 1) + (IF pc = "loop" \/ pc = "done" THEN 0
                   ELSE 2 * moment + (IF pc = "writepng" THEN 1 ELSE 0))

\* C2: in a run that does not fail, setup has completed before any line is
\* extracted; the lines are processed in list order, the i-th name with the
\* i-th rest frequency and width; per line the moments 0, 1, 2 are written
\* in that order, FITS then PNG, to moment{m}/{target}_{name}_moment{m};
\* at the end 3N FITS and 3N PNG files have been written for N lines.
C2_RunOrder ==
    /\ (InLoop \/ pc = "done" \/ written # << >>) => SetupDone
    /\ (error = "none" /\ i >= 1) =>
         /\ Len(written) = WritesSoFar
         /\ \A k \in 1..Len(written) : written[k] = ExpectedWrite(Products, k)
    /\ pc = "done" =>
         /\ i = Len(Names) + 1
         /\ Cardinality({k \in 1..Len(written) : written[k].kind = "fits"})
              = 3 * Len(Names)
         /\ Cardinality({k \in 1..Len(written) : written[k].kind = "png"})
              = 3 * Len(Names)

C2_Witness ==
    /\ pc = "done"
    /\ Len(Names) >= 2
    /\ Names[1] # Names[2]
    /\ Len(written) = 6 * Len(Names)

\* C3: a failure ends the run at once: once an exception has been raised
\* the run is at "failed", nothing is attempted again, and no further file
\* is written or removed.
C3_AbortNoRetry ==
    [][error' # "none" =>
         /\ pc' = "failed"
         /\ written' = written
         /\ disk' = disk]_vars

C3_Witness ==
    /\ pc = "failed"
    /\ error = "LibraryError"
    /\ i = 2
    /\ moment = 1
    /\ Len(written) = 8
    /\ DOMAIN disk # {}

\* the setup products as cubelinemoment_setup derives them from the inputs
ProductsOf(P, F) ==
    LET cb == SetupCube(P, F)
        mcb == SetupMaskCube(P, F)
        nmb == SetupNoiseMapBright(P, cb, mcb)
    IN  [cube |-> cb, peak_velocity |-> SetupPeakVelocity(P, mcb),
         centroid_map |-> SetupCentroidMap(P, cb),
         width_map |-> SetupWidthMap(P, cb),
         max_map |-> SetupMaxMap(cb), noisemap |-> SetupNoiseMap(P, cb),
         spatial_mask |-> SetupSpatialMask(P, PeakAmplitude(P, mcb), nmb)]

LineOfWrite(k) == ((k - 1) \div 6) + 1
Triple(n) == <<Names[n], List[n], Widths[n]>>

\* C4: processing a line changes neither the setup products nor the line
\* lists, and the maps written for a line are a function of the setup
\* products and of that line's (name, rest frequency, width) alone: they
\* are what the products derived from the inputs give for that triple, and
\* two lines with the same triple get the same maps wherever they stand
\* (stated of every write as it is made).
C4_NoSharedState ==
    [][/\ InLoop => (products' = products /\ params' = params)
       /\ written' # written =>
            LET k == Len(written')
            IN  /\ written'[k] = ExpectedWrite(ProductsOf(params, files_in), k)
                /\ \A j \in 1..k :
                     (Triple(LineOfWrite(j)) = Triple(LineOfWrite(k))
                        /\ written'[j].path = written'[k].path)
                     => written'[j].data = written'[k].data]_vars

C4_Witness ==
    /\ pc = "done"
    /\ Len(Names) >= 2
    /\ Triple(1) = Triple(2)
    /\ subcube # Chans
    /\ \E p \in PixelsOf(cube) : written[7].data[p] # <<0, 1>>

\* C5: a spatialmaskcuberegion of None does not abort setup, and leaves
\* the spatial mask cube uncropped.
C5_MaskRegionOptional ==
    (params.spatialmaskcuberegion = None /\ pc # "setup") =>
        /\ error # "TypeError"
        /\ SetupDone => PixelsOf(spatialmaskcube) = Pixels

\* C6: noisemapbright is the noise of the spatial mask ('bright') cube over
\* noisemapbright_baseline, noisemap the noise of the main cube over
\* noisemap_baseline, and spatial_mask is peak_amplitude of the bright cube
\* > spatial_mask_limit * noisemapbright.
C6_NoiseMapSources ==
    SetupDone =>
        /\ noisemapbright =
             [p \in PixelsOf(spatialmaskcube) |->
                Variance(spatialmaskcube,
                         BaselineChans(params.noisemapbright_baseline), p)]
        /\ noisemap =
             [p \in PixelsOf(cube) |->
                Variance(cube, BaselineChans(params.noisemap_baseline), p)]
        /\ spatial_mask =
             [p \in PixelsOf(spatialmaskcube) |->
                ExceedsSigma(PeakAmplitude(params, spatialmaskcube)[p],
                             params.spatial_mask_limit, noisemapbright[p])]

\* C7: moments 0 and 1 are written as computed, and the moment-2 file holds
\* the FWHM, sqrt(8 ln 2) times the velocity dispersion: its square is
\* 8 ln 2 times the second moment.
C7_Moment2IsFWHM ==
    pc = "writepng" =>
        written[Len(written)].data =
            [p \in PixelsOf(cube) |->
                CASE moment = 0 -> Moment0(cube, msubcube, p)
                  [] moment = 1 -> Reduce(Moment1(cube, line_freq, msubcube, p))
                  [] moment = 2 ->
                       LET m2 == Reduce(Moment2(cube, line_freq, msubcube, p))
                       IN  <<8 * Ln2Milli * m2[1], 1000 * m2[2]>>]

\* C8, the part that holds: the equivalence whenever peak_sn^2 / 2 or the
\* Gaussian exponent stays within the range of np.exp, and in every case
\* a channel that fails |centroid - v| < |peak_sn| |width| is masked.
C8_NSigmaCutWithinRange ==
    pc = "masked" =>
        \A x \in (DOMAIN velocities) \X PixelsOf(cube) :
            LET cen == centroid_map[x[2]]
                w2 == width_map[x[2]]
                nv == noisemap[x[2]]
                mx == max_map[x[2]]
                d == cen[1] - velocities[x[1]] * cen[2]
                within == d * d * nv[1] * w2[2]
                            < mx * mx * nv[2] * w2[1] * cen[2] * cen[2]
                qg == GaussExponent(cen, velocities[x[1]], w2)
                qt == ThresholdExponent(PeakSN2(mx, nv))
            IN  /\ (x \in width_mask_cube) => within
                /\ (within /\ ~(ExpIsZero(qg) /\ ExpIsZero(qt)))
                      => x \in width_mask_cube

\* C8: for a pixel of non-zero width and finite peak S/N, a channel at
\* velocity v passes the width mask if and only if
\* |centroid - v| < |peak_sn| |width|, that is
\* (centroid - v)^2 noisemap^2 < max_map^2 width^2.
C8_WidthMaskIsNSigmaCut ==
    pc = "masked" =>
        \A x \in (DOMAIN velocities) \X PixelsOf(cube) :
            LET cen == centroid_map[x[2]]
                w2 == width_map[x[2]]
                nv == noisemap[x[2]]
                mx == max_map[x[2]]
                d == cen[1] - velocities[x[1]] * cen[2]
            IN  (w2[1] # 0 /\ w2[2] # 0 /\ nv[1] # 0 /\ nv[2] # 0 /\ cen[2] # 0)
                => ((x \in width_mask_cube) <=>
                      (d * d * nv[1] * w2[2] < mx * mx * nv[2] * w2[1] * cen[2] * cen[2]))

\* C9: a voxel of the line's slab is left in msubcube, and so enters the
\* moments, exactly when all four masks admit it: |peak_velocity - v| <
\* line_width (strictly), spatial_mask, value > signal_mask_limit *
\* noisemap, and the width mask.  A pixel outside the spatial mask
\* contributes nothing.
AdmittedVoxels ==
    {x \in subcube \X PixelsOf(cube) :
        /\ Abs(peak_velocity[x[2]] - Velocity(line_freq, x[1])) < line_width
        /\ spatial_mask[x[2]]
        /\ ExceedsSigma(cube[x[1]][x[2]], params.signal_mask_limit, noisemap[x[2]])
        /\ WidthMaskAt(centroid_map[x[2]], Velocity(line_freq, x[1]),
                       width_map[x[2]], max_map[x[2]], noisemap[x[2]])}

C9_FourMasks ==
    pc \in {"moment", "writefits", "writepng"} =>
        /\ msubcube = AdmittedVoxels
        /\ \A p \in PixelsOf(cube) :
             ~spatial_mask[p] => ChansAt(msubcube, p) = {}
        /\ (pc # "moment" /\ moment = 0) =>
             \A p \in PixelsOf(cube) :
                mom[p] = <<SumOver(ChansAt(AdmittedVoxels, p),
                                   [c \in Chans |-> cube[c][p]]), 1>>

C9_Witness ==
    /\ pc = "writefits"
    /\ moment = 0
    /\ msubcube # {}
    /\ \E p \in PixelsOf(cube) : ~spatial_mask[p]
    /\ \E x \in (subcube \X PixelsOf(cube)) \ msubcube : spatial_mask[x[2]]
    /\ subcube # Chans

====
